---- MODULE Spec2Model ----
(***************************************************************************)
(* Model of CountMamba/model_mamba2.py (class Mamba2: the inference cache, *)
(* forward_test, forward_stage, forward_evaluate) and of parse_arguments   *)
(* in defense/wtfpad/main.py and defense_npz/wtfpad/main.py.               *)
(*                                                                         *)
(* Arithmetic.  Tensors are sequences of exact numbers.  Projections and   *)
(* the convolution work on integers; the SSM state and everything derived  *)
(* from it are exact dyadic rationals m / 2^e (records [m, e]).  The       *)
(* transcendental functions of the source are replaced by their base-2     *)
(* integer analogues, which keep the laws the code relies on:              *)
(*   exp(v)      ~ 2^v                (Exp2: homomorphism + -> * , > 0)    *)
(*   softplus(v) ~ ceil(log2(1+2^v))  (Softplus: > 0, monotone, ~v)        *)
(*   silu(v)     ~ max(v, 0)          (Act: pointwise, non-linear)         *)
(* Floating-point rounding is outside the model.                           *)
(***************************************************************************)
EXTENDS Integers, Sequences, FiniteSets, TLC

(* ------------------------------ bounds -------------------------------- *)
\* longest sequence a session processes between two primes
MaxLen == 5
\* longest sequence when two sessions or two layers are interleaved
MultiLen == 2
\* longest sequence a session that already holds a state is primed with again
MaxAgain == 1
\* chunk_size the layers of the sessions are constructed with
ChunkSize == 2

(* ----------------------- layer hyper-parameters ----------------------- *)
d_model == 2
d_state == 1
d_conv == 4
expand == 1
headdim == 1
d_inner == expand * d_model
nheads == d_inner \div headdim
d_in_proj == 2 * d_inner + 2 * d_state + nheads
conv_dim == d_inner + 2 * d_state

(* --------------------------- exact numbers ---------------------------- *)
Max(a, b) == IF a >= b THEN a ELSE b

RECURSIVE Pow2(_)
Pow2(n) == IF n <= 0 THEN 1 ELSE 2 * Pow2(n - 1)

\* the dyadic rational m / 2^e in lowest terms
RECURSIVE Dy(_, _)
Dy(m, e) == IF e > 0 /\ m % 2 = 0 THEN Dy(m \div 2, e - 1) ELSE [m |-> m, e |-> e]

DInt(n) == [m |-> n, e |-> 0]
DZero == DInt(0)
DAdd(a, b) ==
    LET E == Max(a.e, b.e)
    IN  Dy(a.m * Pow2(E - a.e) + b.m * Pow2(E - b.e), E)
DMul(a, b) == Dy(a.m * b.m, a.e + b.e)
DScale(a, n) == Dy(a.m * n, a.e)

\* sum of f[i] for i in lo..hi (dyadic / integer)
RECURSIVE DSum(_, _, _)
DSum(f, lo, hi) == IF lo > hi THEN DZero ELSE DAdd(DSum(f, lo, hi - 1), f[hi])
RECURSIVE ISum(_, _, _)
ISum(f, lo, hi) == IF lo > hi THEN 0 ELSE ISum(f, lo, hi - 1) + f[hi]

\* torch.exp on a non-positive integer exponent
Exp2(v) == Dy(1, -v)
\* torch.exp on a non-negative integer exponent (A_log)
IExp2(v) == Pow2(v)
\* F.softplus
Softplus(v) == IF v > 0 THEN v + 1 ELSE 1
\* nn.SiLU
Act(v) == IF v > 0 THEN v ELSE 0

(* ------------------------- layer parameters --------------------------- *)
\* in_proj.weight, d_in_proj rows of d_model columns; rows are z | xBC | dt
in_proj_weight ==
    << <<1, 2>>, <<2, 1>>,
       <<1, 2>>, <<-1, 1>>, <<1, -1>>, <<1, 2>>,
       <<0, 1>>, <<1, -1>> >>
\* conv1d.weight "d w": one kernel of d_conv taps per channel, and conv1d.bias
conv1d_weight ==
    << <<1, 0, -1, 1>>, <<0, 1, 1, 1>>, <<-1, 1, 0, 1>>, <<1, -1, 1, 1>> >>
conv1d_bias == <<0, 1, 1, 0>>
dt_bias == <<0, -1>>
A_log == <<0, 1>>
D == <<1, 2>>
norm_weight == <<1, 1>>
\* out_proj.weight, d_model rows of d_inner columns
out_proj_weight == << <<1, 1>>, <<1, -1>> >>

\* the input vectors u_t (width d_model) the model feeds
Tokens == { <<1, 0>>, <<0, 1>> }

RECURSIVE SeqsUpTo(_, _)
SeqsUpTo(S, n) ==
    IF n = 0 THEN { <<>> }
    ELSE LET P == SeqsUpTo(S, n - 1)
         IN  P \cup { Append(p, x) : p \in { q \in P : Len(q) = n - 1 }, x \in S }

(* --------------------------- tensor helpers --------------------------- *)
Zeros(n) == [i \in 1..n |-> 0]
\* v[start : start + n] (0-based start, as torch.split cuts it)
Slice(v, start, n) == [i \in 1..n |-> v[start + i]]
\* variant: F.pad(row, (0, n)), the padding (or the crop) on the right
PadRight(row, n) ==
    IF n >= 0 THEN row \o Zeros(n) ELSE SubSeq(row, 1, Len(row) + n)
\* F.pad(row, (n, 0)): n zeros on the left; a negative n crops -n from the left
PadLeft(row, n) ==
    IF n >= 0 THEN Zeros(n) \o row ELSE SubSeq(row, 1 - n, Len(row))
\* seq[:-n] of Python: -0 is 0, so n = 0 keeps nothing
DropLast(seq, n) == IF n = 0 THEN << >> ELSE SubSeq(seq, 1, Len(seq) - n)
\* torch.roll(row, shifts=-1)
Roll(row) == IF Len(row) = 0 THEN row ELSE Tail(row) \o << Head(row) >>

(* ------------------------------ in_proj ------------------------------- *)
InProj(u) ==
    [r \in 1..d_in_proj |->
        ISum([j \in 1..d_model |-> in_proj_weight[r][j] * u[j]], 1, d_model)]

d_mlp == (d_in_proj - 2 * d_inner - 2 * d_state - nheads) \div 2

\* torch.split(zxbcdt, [d_mlp, d_mlp, d_inner, d_inner + 2 d_state, nheads])
SplitProj(zxbcdt) ==
    [z0  |-> Slice(zxbcdt, 0, d_mlp),
     x0  |-> Slice(zxbcdt, d_mlp, d_mlp),
     z   |-> Slice(zxbcdt, 2 * d_mlp, d_inner),
     xBC |-> Slice(zxbcdt, 2 * d_mlp + d_inner, conv_dim),
     dt  |-> Slice(zxbcdt, 2 * d_mlp + d_inner + conv_dim, nheads)]

\* torch.split(xBC, [d_inner, d_state, d_state]) and "(h p) -> h p"
SplitXBC(xBC) ==
    [x |-> [h \in 1..nheads |->
               [p \in 1..headdim |-> xBC[(h - 1) * headdim + p]]],
     B |-> Slice(xBC, d_inner, d_state),
     C |-> Slice(xBC, d_inner + d_state, d_state)]

(* ---------------------------- convolution ----------------------------- *)
\* nn.Conv1d(groups = conv_dim, padding = d_conv - 1) on one channel row:
\* L + d_conv - 1 outputs, output j reading padded[j .. j + d_conv - 1]
Conv1dChannel(row, c) ==
    LET padded == Zeros(d_conv - 1) \o row \o Zeros(d_conv - 1)
    IN  [j \in 1..(Len(row) + d_conv - 1) |->
            conv1d_bias[c]
            + ISum([k \in 1..d_conv |-> conv1d_weight[c][k] * padded[j + k - 1]],
                   1, d_conv)]

\* act(conv1d(xBC^T)^T[:, :-(d_conv - 1)]) : the causal outputs, per timestep
ConvBulk(xBCseq) ==
    LET L == Len(xBCseq)
        rows == [c \in 1..conv_dim |-> [t \in 1..L |-> xBCseq[t][c]]]
        outs == [c \in 1..conv_dim |-> DropLast(Conv1dChannel(rows[c], c), d_conv - 1)]
    IN  [t \in 1..L |-> [c \in 1..conv_dim |-> Act(outs[c][t])]]

\* variant: torch.roll(shifts=+1), the window rolled the other way
ConvRollForward(conv_state, xBC) ==
    [c \in 1..conv_dim |->
        [k \in 1..d_conv |->
            IF k = d_conv THEN xBC[c]
            ELSE IF k = 1 THEN conv_state[c][d_conv] ELSE conv_state[c][k - 1]]]

\* the conv step of forward_stage: roll the window, write the new column
ConvRoll(conv_state, xBC) ==
    [c \in 1..conv_dim |->
        [Roll(conv_state[c]) EXCEPT ![d_conv] = xBC[c]]]

\* act(sum(conv_state * weight, dim=-1) + bias)
ConvStepOut(conv_state) ==
    [c \in 1..conv_dim |->
        Act(ISum([k \in 1..d_conv |-> conv_state[c][k] * conv1d_weight[c][k]],
                 1, d_conv)
            + conv1d_bias[c])]

(* ------------------------------ SSM step ------------------------------ *)
\* A = -torch.exp(self.A_log.float())
DecayBase(h) == -IExp2(A_log[h])
\* dt = F.softplus(dt + self.dt_bias)
DtEff(dt, h) == Softplus(dt[h] + dt_bias[h])

ZeroSsm == [h \in 1..nheads |-> [p \in 1..headdim |-> [n \in 1..d_state |-> DZero]]]

\* variant: the decay applied after the input is added, (ssm_state + dBx) * dA
SsmUpdateDecayAfter(ssm_state, x, dt, B) ==
    [h \in 1..nheads |-> [p \in 1..headdim |-> [n \in 1..d_state |->
        DMul(DAdd(ssm_state[h][p][n], DInt(DtEff(dt, h) * B[n] * x[h][p])),
             Exp2(DtEff(dt, h) * DecayBase(h)))]]]

\* ssm_state * dA + dBx, with dA = exp(dt * A), dBx = einsum("bh,bn,bhp->bhpn")
SsmUpdate(ssm_state, x, dt, B) ==
    [h \in 1..nheads |-> [p \in 1..headdim |-> [n \in 1..d_state |->
        DAdd(DMul(ssm_state[h][p][n], Exp2(DtEff(dt, h) * DecayBase(h))),
             DInt(DtEff(dt, h) * B[n] * x[h][p]))]]]

\* y = einsum("bhpn,bn->bhp", ssm_state, C) + D * x, flattened "h p -> (h p)"
SsmOut(ssm_state, x, C) ==
    [i \in 1..d_inner |->
        LET h == ((i - 1) \div headdim) + 1
            p == ((i - 1) % headdim) + 1
        IN  DAdd(DSum([n \in 1..d_state |-> DScale(ssm_state[h][p][n], C[n])],
                      1, d_state),
                 DInt(D[h] * x[h][p]))]

(* ---------------------- norm and out projection ----------------------- *)
\* RMSNormGated(norm_before_gate=False): y * silu(z), scaled by the weight
\* (the division by the root mean square has no exact counterpart)
GatedNorm(y, z) ==
    [i \in 1..d_inner |-> DScale(y[i], Act(z[i]) * norm_weight[i])]

OutProj(y) ==
    [j \in 1..d_model |->
        DSum([i \in 1..d_inner |-> DScale(y[i], out_proj_weight[j][i])], 1, d_inner)]

(* ------------------- chunked scan (mamba_ssm library) ----------------- *)
\* mamba_chunk_scan_combined(x, dt, A, B, C, chunk_size, D, dt_bias,
\* dt_softplus=True, return_final_states=True): the sequence is cut into
\* chunks of chunk_size; inside a chunk every position is given in closed
\* form from the state entering the chunk; only that boundary state is
\* carried from one chunk to the next.
ChunkLogDecay(dts, h) == [t \in 1..Len(dts) |-> DtEff(dts[t], h) * DecayBase(h)]

\* contribution of the inputs a..t of one chunk to the state at t
ChunkLocal(xs, dts, Bs, a, t) ==
    [h \in 1..nheads |-> [p \in 1..headdim |-> [n \in 1..d_state |->
        LET ld == ChunkLogDecay(dts, h)
        IN  DSum([s \in a..t |->
                    DScale(Exp2(ISum(ld, a, t) - ISum(ld, a, s)),
                           DtEff(dts[s], h) * Bs[s][n] * xs[s][h][p])],
                 a, t)]]]

\* state at position t of the chunk starting at a, entered with state S
ChunkStateAt(xs, dts, Bs, a, t, S) ==
    LET loc == ChunkLocal(xs, dts, Bs, a, t)
    IN  [h \in 1..nheads |-> [p \in 1..headdim |-> [n \in 1..d_state |->
            DAdd(DMul(Exp2(ISum(ChunkLogDecay(dts, h), a, t)), S[h][p][n]),
                 loc[h][p][n])]]]

Min(a, b) == IF a <= b THEN a ELSE b

\* state entering chunk k (k = 1 is the initial state), resolved in order
RECURSIVE ChunkBoundary(_, _, _, _, _, _)
ChunkBoundary(k, xs, dts, Bs, chunk, init) ==
    IF k <= 1 THEN init
    ELSE ChunkStateAt(xs, dts, Bs, (k - 2) * chunk + 1,
                      Min((k - 1) * chunk, Len(xs)),
                      ChunkBoundary(k - 1, xs, dts, Bs, chunk, init))

ChunkScan(xs, dts, Bs, Cs, chunk, init) ==
    LET L == Len(xs)
        nchunks == (L + chunk - 1) \div chunk
        bnd == [k \in 1..(nchunks + 1) |-> ChunkBoundary(k, xs, dts, Bs, chunk, init)]
        st == [t \in 1..L |->
                 LET k == ((t - 1) \div chunk) + 1
                 IN  ChunkStateAt(xs, dts, Bs, (k - 1) * chunk + 1, t, bnd[k])]
    IN  [y |-> [t \in 1..L |->
                  [i \in 1..d_inner |->
                     LET h == ((i - 1) \div headdim) + 1
                         p == ((i - 1) % headdim) + 1
                     IN  DAdd(DSum([n \in 1..d_state |->
                                      DScale(st[t][h][p][n], Cs[t][n])], 1, d_state),
                              DInt(D[h] * xs[t][h][p]))]],
         last_state |-> bnd[nchunks + 1]]

(* ------------------------------- state -------------------------------- *)
VARIABLES
    cache,       \* each inference_params' key_value_memory_dict: layer -> entry
    hist,        \* per session and layer: the inputs its cached state stands for
    out,         \* the last call and what it returned
    chunk_size,  \* self.chunk_size of the layers
    sections,    \* conf_parser._sections of the padding simulator
    parsed       \* what parse_arguments returned: (args.section, config)

vars == << cache, hist, out, chunk_size, sections, parsed >>

\* the inference_params objects and the layers' layer_idx
Sessions == {1, 2}
Layers == {1, 2}

\* kv with the item layer_idx -> entry set (added or replaced)
DictSet(kv, layer_idx, entry) ==
    [k \in (DOMAIN kv) \cup {layer_idx} |-> IF k = layer_idx THEN entry ELSE kv[k]]

ZeroEntry == [conv_state |-> [c \in 1..conv_dim |-> Zeros(d_conv)],
              ssm_state |-> ZeroSsm]

\* variant: the fresh convolution window is not zeroed (torch.ones)
GetStatesFromCacheOnes(kv, layer_idx) ==
    IF layer_idx \notin DOMAIN kv
    THEN LET fresh == [conv_state |-> [c \in 1..conv_dim |-> [k \in 1..d_conv |-> 1]],
                       ssm_state |-> ZeroSsm]
         IN  [kv |-> DictSet(kv, layer_idx, fresh), entry |-> fresh]
    ELSE [kv |-> kv, entry |-> kv[layer_idx]]

\* variant: a zero state is allocated on every call
GetStatesFromCacheZeroed(kv, layer_idx) ==
    [kv |-> DictSet(kv, layer_idx, ZeroEntry), entry |-> ZeroEntry]

\* _get_states_from_cache on the dict kv (a function whose domain is the set
\* of keys): the dict afterwards and the (conv_state, ssm_state) returned
GetStatesFromCache(kv, layer_idx) ==
    IF layer_idx \notin DOMAIN kv
    THEN [kv |-> DictSet(kv, layer_idx, ZeroEntry), entry |-> ZeroEntry]
    ELSE [kv |-> kv, entry |-> kv[layer_idx]]

\* variant: one dict shared by every inference_params object
DictOfShared(s) == 1

\* the dict a call reads and writes is the key_value_memory_dict of the
\* inference_params object it is handed

DictOf(s) == s

(* ---------------------------- forward_test ---------------------------- *)
\* the body of forward_test, with the scan started from the state `init`
BulkPass(u, kv, layer_idx, init) ==
    LET g == GetStatesFromCache(kv, layer_idx)
        L == Len(u)
        zx == [t \in 1..L |-> SplitProj(InProj(u[t]))]
        \* conv_state.copy_(F.pad(xBC_t, (d_conv - L, 0)))
        conv_state == [c \in 1..conv_dim |->
                          PadLeft([t \in 1..L |-> zx[t].xBC[c]], d_conv - L)]
        sp == LET xa == ConvBulk([t \in 1..L |-> zx[t].xBC])
              IN  [t \in 1..L |-> SplitXBC(xa[t])]
        scan == ChunkScan([t \in 1..L |-> sp[t].x], [t \in 1..L |-> zx[t].dt],
                          [t \in 1..L |-> sp[t].B], [t \in 1..L |-> sp[t].C],
                          chunk_size, init)
    IN  [kv |-> DictSet(g.kv, layer_idx,
                        [conv_state |-> conv_state, ssm_state |-> scan.last_state]),
         out |-> [t \in 1..L |-> OutProj(GatedNorm(scan.y[t], zx[t].z))]]

\* variant: the scan resumes from the cached ssm_state instead of zero
ForwardTestResuming(u, kv, layer_idx) ==
    BulkPass(u, kv, layer_idx, GetStatesFromCache(kv, layer_idx).entry.ssm_state)

\* mamba_chunk_scan_combined is called without initial_states: zero state
ForwardTest(u, kv, layer_idx) == BulkPass(u, kv, layer_idx, ZeroSsm)

(* --------------------------- forward_stage ---------------------------- *)
ForwardStage(hidden_states, kv, layer_idx) ==
    LET g == GetStatesFromCache(kv, layer_idx)
        zx == SplitProj(InProj(hidden_states))
        conv_state == ConvRoll(g.entry.conv_state, zx.xBC)
        sp == SplitXBC(ConvStepOut(conv_state))
        ssm_state == SsmUpdate(g.entry.ssm_state, sp.x, zx.dt, sp.B)
        y == SsmOut(ssm_state, sp.x, sp.C)
    IN  [kv |-> DictSet(g.kv, layer_idx,
                        [conv_state |-> conv_state, ssm_state |-> ssm_state]),
         out |-> << OutProj(GatedNorm(y, zx.z)) >>]

(* -------------------------- forward_evaluate -------------------------- *)
\* variant: prime on all but the last input
StartPositionPrefix(u) == Max(Len(u) - 1, 1)

\* start_position = u.shape[1]
StartPosition(u) == Len(u)

\* for i in range(i, n): out = forward_stage(u[:, i: i+1, :])   (i 0-based)
RECURSIVE EvaluateLoop(_, _, _, _, _)
EvaluateLoop(u, i, n, layer_idx, acc) ==
    IF i >= n THEN acc
    ELSE LET r == ForwardStage(u[i + 1], acc.kv, layer_idx)
         IN  EvaluateLoop(u, i + 1, n, layer_idx,
                          [acc EXCEPT !.kv = r.kv, !.out = r.out,
                                      !.nstage = acc.nstage + 1])

ForwardEvaluate(u, kv, layer_idx) ==
    LET start_position == StartPosition(u)
        r0 == ForwardTest(SubSeq(u, 1, start_position), kv, layer_idx)
    IN  EvaluateLoop(u, start_position, Len(u), layer_idx,
                     [kv |-> r0.kv, out |-> r0.out, ntest |-> 1, nstage |-> 0])

(* ------------------------- parse_arguments ---------------------------- *)
\* dict(a, **b): a copy of a updated with every item of b
DictUpdate(a, b) ==
    [k \in (DOMAIN a) \cup (DOMAIN b) |-> IF k \in DOMAIN b THEN b[k] ELSE a[k]]

\* defense/wtfpad/main.py:
\*   config = conf_parser._sections[args.section]
\*   config = dict(config, **conf_parser._sections['normal_rcv'])
ParseConfig(secs, section) == DictUpdate(secs[section], secs["normal_rcv"])

\* defense_npz/wtfpad/main.py: the same two statements
ParseConfigNpz(secs, section) == DictUpdate(secs[section], secs["normal_rcv"])

SectionNames == {"normal_rcv", "heavy"}
ConfigKeys == {"client_snd_burst_dist", "server_snd_burst_dist"}
ConfigValues == {"norm", "weibull"}
SectionBodies == UNION { [K -> ConfigValues] : K \in SUBSET ConfigKeys }

(* ------------------------------ actions ------------------------------- *)
\* out: the last call (op, session s, layer l), what it found in the dict
\* (found), what it returned (y: output vectors; ret: the states a begin
\* returned, as a one-element sequence) and how often it ran forward_test
\* and forward_stage
NoCall == [op |-> "none", s |-> 0, l |-> 0, found |-> "none", y |-> << >>,
           ret |-> << >>, ntest |-> 0, nstage |-> 0]

NotParsed == [entry |-> "none", section |-> "none", config |-> << >>]

\* what a call of session s on layer l finds in the dict
Found(s, l) ==
    IF l \notin DOMAIN cache[DictOf(s)] THEN "absent"
    ELSE IF hist[s][l] = << >> THEN "zero" ELSE "state"

Call(op, s, l) == [NoCall EXCEPT !.op = op, !.s = s, !.l = l, !.found = Found(s, l)]

InitLayer ==
    /\ cache = [s \in Sessions |-> << >>]
    /\ hist = [s \in Sessions |-> [l \in Layers |-> << >>]]
    /\ out = NoCall
    /\ parsed = NotParsed

Init ==
    /\ InitLayer
    /\ chunk_size = ChunkSize
    /\ sections = [n \in SectionNames |-> << >>]

\* a caller asks layer l for the states of session s
Begin(s, l) ==
    \E g \in { GetStatesFromCache(cache[DictOf(s)], l) } :
        /\ cache' = [cache EXCEPT ![DictOf(s)] = g.kv]
        /\ out' = [Call("begin", s, l) EXCEPT !.ret = << g.entry >>]
        /\ UNCHANGED << hist, chunk_size, sections, parsed >>

Prime(s, l, u) ==
    \E r \in { ForwardTest(u, cache[DictOf(s)], l) } :
        /\ cache' = [cache EXCEPT ![DictOf(s)] = r.kv]
        /\ hist' = [hist EXCEPT ![s][l] = u]
        /\ out' = [Call("prime", s, l) EXCEPT !.y = r.out, !.ntest = 1]
        /\ UNCHANGED << chunk_size, sections, parsed >>

Step(s, l, x) ==
    \E r \in { ForwardStage(x, cache[DictOf(s)], l) } :
        /\ cache' = [cache EXCEPT ![DictOf(s)] = r.kv]
        /\ hist' = [hist EXCEPT ![s][l] = Append(@, x)]
        /\ out' = [Call("step", s, l) EXCEPT !.y = r.out, !.nstage = 1]
        /\ UNCHANGED << chunk_size, sections, parsed >>

Evaluate(s, l, u) ==
    \E r \in { ForwardEvaluate(u, cache[DictOf(s)], l) } :
        /\ cache' = [cache EXCEPT ![DictOf(s)] = r.kv]
        /\ hist' = [hist EXCEPT ![s][l] = u]
        /\ out' = [Call("evaluate", s, l) EXCEPT !.y = r.out, !.ntest = r.ntest,
                                                 !.nstage = r.nstage]
        /\ UNCHANGED << chunk_size, sections, parsed >>

\* parse_arguments of defense/wtfpad/main.py, args.section one of the sections
ParseArguments(section) ==
    /\ parsed' = [entry |-> "defense", section |-> section,
                  config |-> ParseConfig(sections, section)]
    /\ UNCHANGED << cache, hist, out, chunk_size, sections >>

\* parse_arguments of defense_npz/wtfpad/main.py
ParseArgumentsNpz(section) ==
    /\ parsed' = [entry |-> "defense_npz", section |-> section,
                  config |-> ParseConfigNpz(sections, section)]
    /\ UNCHANGED << cache, hist, out, chunk_size, sections >>

Contexts(n) == SeqsUpTo(Tokens, n) \ { << >> }

\* the sequences a caller hands to forward_test / forward_evaluate: any of
\* at most n inputs for a session without history, short ones afterwards
Callable(s, l, u, n) ==
    /\ Len(u) <= n
    /\ hist[s][l] = << >> \/ Len(u) <= MaxAgain

(* --------------------------- specifications --------------------------- *)
\* one session on one layer
Next ==
    \/ Begin(1, 1)
    \/ \E u \in Contexts(MaxLen) : Callable(1, 1, u, MaxLen) /\ Prime(1, 1, u)
    \/ \E x \in Tokens : Len(hist[1][1]) < MaxLen /\ Step(1, 1, x)
    \/ \E u \in Contexts(MaxLen) : Callable(1, 1, u, MaxLen) /\ Evaluate(1, 1, u)

Spec == Init /\ [][Next]_vars

\* one session on two layers
NextLayers ==
    \E l \in Layers :
        \/ Begin(1, l)
        \/ \E u \in Contexts(MultiLen) : Callable(1, l, u, MultiLen) /\ Prime(1, l, u)
        \/ \E x \in Tokens : Len(hist[1][l]) < MultiLen /\ Step(1, l, x)

SpecLayers == Init /\ [][NextLayers]_vars

\* two sessions (two inference_params objects) on the same layer
NextSessions ==
    \E s \in Sessions :
        \/ Begin(s, 1)
        \/ \E u \in Contexts(MultiLen) : Callable(s, 1, u, MultiLen) /\ Prime(s, 1, u)
        \/ \E x \in Tokens : Len(hist[s][1]) < MultiLen /\ Step(s, 1, x)

SpecSessions == Init /\ [][NextSessions]_vars

\* the bulk pass alone, once, for every chunk size and every sequence
InitScan ==
    /\ InitLayer
    /\ chunk_size \in 1..MaxLen
    /\ sections = [n \in SectionNames |-> << >>]

NextScan == \E u \in Contexts(MaxLen) : out.op = "none" /\ Prime(1, 1, u)

SpecScan == InitScan /\ [][NextScan]_vars

\* parse_arguments on every configuration file over the keys and values
InitConfig ==
    /\ InitLayer
    /\ chunk_size = ChunkSize
    /\ sections \in [SectionNames -> SectionBodies]

NextConfig ==
    \E section \in SectionNames :
        \/ ParseArguments(section)
        \/ ParseArgumentsNpz(section)

SpecConfig == InitConfig /\ [][NextConfig]_vars

(* ------------------------------ reference ----------------------------- *)
\* the empty key_value_memory_dict of a new inference_params object
EmptyDict == << >>

\* forward_test on a fresh cache over the inputs h
Bulk(h, l) == ForwardTest(h, EmptyDict, l)

\* the conv-input vector (xBC slice of in_proj) of one input
ConvInput(x) == SplitProj(InProj(x)).xBC

\* the last n conv-input vectors of the history h in arrival order, zero
\* vectors standing in for the positions before its start
LastConvInputs(h, n) ==
    [k \in 1..n |->
        LET t == Len(h) - n + k
        IN  IF t >= 1 THEN ConvInput(h[t]) ELSE Zeros(conv_dim)]

\* the cached convolution window as the sequence of its columns
Window(entry) ==
    [k \in 1..Len(entry.conv_state[1]) |->
        [c \in 1..conv_dim |-> entry.conv_state[c][k]]]

\* the per-timestep update applied sequentially to the scan inputs of h,
\* from the zero state: S <- S * decay + dBx ; y = S . C + D * x
RECURSIVE SequentialScan(_, _, _)
SequentialScan(sp, dts, t) ==
    IF t = 0 THEN [ssm_state |-> ZeroSsm, y |-> << >>]
    ELSE LET prev == SequentialScan(sp, dts, t - 1)
             S == SsmUpdate(prev.ssm_state, sp[t].x, dts[t], sp[t].B)
         IN  [ssm_state |-> S, y |-> Append(prev.y, SsmOut(S, sp[t].x, sp[t].C))]

\* the scan inputs of h: the activated causal convolution, split into x, B, C
ScanInputs(h) ==
    LET xa == ConvBulk([t \in 1..Len(h) |-> ConvInput(h[t])])
    IN  [t \in 1..Len(h) |-> SplitXBC(xa[t])]

SequentialPass(h) ==
    LET zx == [t \in 1..Len(h) |-> SplitProj(InProj(h[t]))]
        r == SequentialScan(ScanInputs(h), [t \in 1..Len(h) |-> zx[t].dt], Len(h))
    IN  [ssm_state |-> r.ssm_state,
         out |-> [t \in 1..Len(h) |-> OutProj(GatedNorm(r.y[t], zx[t].z))]]

(* ------------------------------- claims ------------------------------- *)
\* C1 (prime+step composition): whenever a session's cached state stands for
\* the inputs h = context ++ [x_1..x_N] (a prime on the context followed by N
\* steps), the cached convolution window and SSM state equal those a single
\* forward_test over h leaves in a fresh cache, and the output of the last
\* step equals that forward_test's output at the last position of h.
C1_PrimeStepComposition ==
    \A s \in Sessions, l \in Layers :
        hist[s][l] # << >> =>
            LET r == Bulk(hist[s][l], l)
            IN  /\ l \in DOMAIN cache[s]
                /\ cache[s][l] = r.kv[l]
                /\ (out.op = "step" /\ out.s = s /\ out.l = l)
                       => out.y = << r.out[Len(hist[s][l])] >>

\* a step has just extended a history longer than the kernel, on a state
\* that a call had left (a prime or earlier steps)
C1_Witness ==
    /\ out.op = "step" /\ out.found = "state"
    /\ Len(hist[1][1]) > d_conv
    /\ cache[1][1].ssm_state # ZeroSsm

\* C2 (scan equivalence): for every sequence and every chunk size between 1
\* and its length, the chunked scan of forward_test yields at every position
\* the output, and at the end the state, that the per-timestep update of
\* forward_stage yields when applied sequentially from the zero state.
C2_ScanEquivalence ==
    (out.op = "prime" /\ chunk_size <= Len(hist[1][1])) =>
        LET r == SequentialPass(hist[1][1])
        IN  /\ cache[1][1].ssm_state = r.ssm_state
            /\ out.y = r.out

\* a scan over several chunks, the last one partial, with a non-zero state
C2_Witness ==
    /\ out.op = "prime"
    /\ chunk_size > 1
    /\ Len(hist[1][1]) > chunk_size
    /\ Len(hist[1][1]) % chunk_size # 0
    /\ cache[1][1].ssm_state # ZeroSsm

\* C3 as claimed: a step on a session that holds no primed state (no cache
\* entry, or a begun all-zero one) fails with InvalidStateError and leaves
\* the cache unchanged.
C3_StepBeforePrimeFails ==
    [][\A s \in Sessions, l \in Layers, x \in Tokens :
          (hist[s][l] = << >> /\ Step(s, l, x))
              => (cache' = cache /\ out'.op = "InvalidStateError")]_vars

\* C3 amended: forward_stage never fails; on a session with no cache entry
\* or a begun all-zero one it takes the all-zero state as its state, and its
\* output and the cache it leaves are those of forward_test over that one
\* input on a fresh cache.
C3_StepFromZeroState ==
    (out.op = "step" /\ out.found \in {"absent", "zero"}) =>
        LET r == Bulk(hist[out.s][out.l], out.l)
        IN  /\ Len(hist[out.s][out.l]) = 1
            /\ out.y = r.out
            /\ out.l \in DOMAIN cache[out.s]
            /\ cache[out.s][out.l] = r.kv[out.l]

\* a step has acted on a session that had no cache entry
C3_Witness ==
    /\ out.op = "step" /\ out.found = "absent"
    /\ Len(hist[1][1]) = 1
    /\ 1 \in DOMAIN cache[1]

\* C4 as claimed: a prime on a session that is already primed or stepping
\* fails with InvalidStateError and does not overwrite the cached state.
C4_PrimeAgainFails ==
    [][\A s \in Sessions, l \in Layers :
          LET u == hist'[s][l]
          IN  (hist[s][l] # << >> /\ u # << >> /\ Prime(s, l, u))
              => (cache'[s][l] = cache[s][l] /\ out'.op = "InvalidStateError")]_vars

\* C4 amended: forward_test never fails; on a session that is already primed
\* or stepping it overwrites the cached window and SSM state with those of
\* the new context alone, and returns the bulk output of that context, as on
\* a fresh cache.
C4_PrimeAgainOverwrites ==
    (out.op = "prime" /\ out.found = "state") =>
        LET r == Bulk(hist[out.s][out.l], out.l)
        IN  /\ out.y = r.out
            /\ Len(out.y) = Len(hist[out.s][out.l])
            /\ cache[out.s][out.l] = r.kv[out.l]

\* a prime has acted on a session that held a non-zero state
C4_Witness ==
    /\ out.op = "prime" /\ out.found = "state"
    /\ hist[1][1] # << >>
    /\ cache[1][1].ssm_state # ZeroSsm

\* C5 (begin is idempotent): _get_states_from_cache allocates the all-zero
\* window and SSM state only when the layer has no entry; when it has one,
\* whatever calls made it, the call returns that entry and leaves it as it
\* is; either way no other layer's entry and no other dict changes.
C5_BeginIdempotent ==
    [][\A s \in Sessions, l \in Layers :
          (out'.op = "begin" /\ Begin(s, l))
              => /\ IF l \in DOMAIN cache[s]
                    THEN /\ cache'[s][l] = cache[s][l]
                         /\ out'.ret = << cache[s][l] >>
                    ELSE /\ cache'[s][l] = ZeroEntry
                         /\ out'.ret = << ZeroEntry >>
                 /\ DOMAIN cache'[s] = DOMAIN cache[s] \cup {l}
                 /\ \A k \in DOMAIN cache[s] \ {l} : cache'[s][k] = cache[s][k]
                 /\ \A t \in Sessions \ {s} : cache'[t] = cache[t]]_vars

\* a begin has acted on a layer that held a non-zero state, next to another
\* layer holding one
C5_Witness ==
    /\ out.op = "begin" /\ out.found = "state" /\ out.l = 1
    /\ cache[1][1].ssm_state # ZeroSsm
    /\ 2 \in DOMAIN cache[1] /\ hist[1][2] # << >>

\* C6 (session isolation): under every interleaving of the calls of two
\* sessions on the same layer_id, the state each session's dict holds and the
\* output each of its primes and steps returns are the ones its own inputs
\* alone produce on a fresh cache: nothing of the other session's window or
\* SSM state is read or written.
C6_SessionIsolation ==
    \A s \in Sessions :
        LET h == hist[s][1]
            r == Bulk(h, 1)
        IN  IF h = << >>
            THEN 1 \in DOMAIN cache[s] => cache[s][1] = ZeroEntry
            ELSE /\ 1 \in DOMAIN cache[s]
                 /\ cache[s][1] = r.kv[1]
                 /\ (out.s = s /\ out.op = "prime") => out.y = r.out
                 /\ (out.s = s /\ out.op = "step") => out.y = << r.out[Len(h)] >>

\* session 2 has stepped on a state of its own while session 1 holds the
\* state of another sequence for the same layer
C6_Witness ==
    /\ out.op = "step" /\ out.s = 2 /\ out.l = 1 /\ out.found = "state"
    /\ hist[1][1] # << >>
    /\ hist[2][1] # hist[1][1]
    /\ cache[1][1] # cache[2][1]

\* C8 as claimed: the cached convolution window holds exactly the last
\* d_conv - 1 conv-input vectors of the history, in arrival order, zero
\* vectors standing in for the positions before the start.
C8_WindowHoldsLastKMinusOne ==
    \A s \in Sessions, l \in Layers :
        l \in DOMAIN cache[s]
            => Window(cache[s][l]) = LastConvInputs(hist[s][l], d_conv - 1)

\* C8 amended: after begin and after any sequence of prime/step calls the
\* window holds exactly the last d_conv (kernel_size) conv-input vectors of
\* the history, the newest included, in arrival order, zero vectors standing
\* in for the positions before the start.
C8_WindowHoldsLastK ==
    \A s \in Sessions, l \in Layers :
        l \in DOMAIN cache[s]
            => Window(cache[s][l]) = LastConvInputs(hist[s][l], d_conv)

\* steps have pushed every zero column out of a window seeded by a prime
C8_Witness ==
    /\ out.op = "step"
    /\ Len(hist[1][1]) = d_conv + 1
    /\ \A k \in 1..d_conv : Window(cache[1][1])[k] # Zeros(conv_dim)

\* C9 (forward_evaluate never steps): in forward_evaluate the step loop runs
\* over an empty range for every input length: forward_stage is not called,
\* forward_test is called once over the whole input, and what is returned is
\* that bulk output.
C9_EvaluateIsOneBulkPass ==
    out.op = "evaluate" =>
        /\ out.nstage = 0
        /\ out.ntest = 1
        /\ out.y = Bulk(hist[out.s][out.l], out.l).out
        /\ Len(out.y) = Len(hist[out.s][out.l])

\* forward_evaluate has run on an input of several timesteps
C9_Witness ==
    /\ out.op = "evaluate"
    /\ Len(hist[1][1]) > d_conv
    /\ Len(out.y) = Len(hist[1][1])

\* C10 as claimed: for every key that both the selected section and
\* 'normal_rcv' specify, the config parse_arguments returns holds the
\* selected section's value.
C10_SelectedSectionWins ==
    parsed.entry # "none" =>
        \A k \in (DOMAIN sections[parsed.section]) \cap (DOMAIN sections["normal_rcv"]) :
            parsed.config[k] = sections[parsed.section][k]
====
